---- MODULE Spec2Model ----
(***************************************************************************)
(* A model of py7zr's archive facade (py7zr/py7zr.py): opening a 7z        *)
(* archive (magic check, signature header, CRC check of the metadata,      *)
(* header decode), the positional file-list reconstruction                 *)
(* (_filelist_retrieve), and the read operations test() and extractall().  *)
(*                                                                         *)
(* Python values are modelled as follows: None of an integer field is the  *)
(* value None (-1); a list is a sequence; a dict with optional keys is a   *)
(* record with a has_<key> flag; a CRC-32 value is the pair <<hi, lo>> of  *)
(* its two 16-bit halves; a name is a sequence of one-character strings.   *)
(***************************************************************************)
EXTENDS Integers, Sequences, FiniteSets, TLC

VARIABLES
    source,      \* the byte source handed to SevenZipFile(file, 'r')
    fppos,       \* self.fp's read position
    pc,          \* position of the constructor / facade
    err,         \* the exception that left the last operation ("none" if none)
    sig_header,  \* self.sig_header
    afterheader, \* self.afterheader
    header,      \* self.header, the decoded metadata
    files,       \* self.files.files_list
    solid,       \* self.solid
    loop,        \* the loop index variables of _filelist_retrieve
    fstate,      \* per folder: folder.solid and folder.files (offset, list)
    worker,      \* self.worker: registered sinks and the extraction request
    fs,          \* what extractall() created on the filesystem
    lastop,      \* the last facade call and its result
    mode,        \* self.mode
    fp,          \* self.fp: closed or not, self._fileRefCnt, what was written
    it           \* self.files.index and the iterations over self.files

vars == <<source, fppos, pc, err, sig_header, afterheader, header, files,
          solid, loop, fstate, worker, fs, lastop, mode, fp, it>>

(***************************************************************************)
(* Bounds of the model.                                                    *)
(***************************************************************************)
MaxFolders == 2
MaxFiles == 3

(***************************************************************************)
(* Python's None for an optional integer.                                  *)
(***************************************************************************)
None == -1

Min(a, b) == IF a < b THEN a ELSE b
Max(a, b) == IF a > b THEN a ELSE b

RECURSIVE SumSeq(_)
SumSeq(s) == IF s = <<>> THEN 0 ELSE Head(s) + SumSeq(Tail(s))

\* Python slice s[a:b] with 0-based a, b (clamped, never raises)
Slice(s, a, b) == SubSeq(s, a + 1, Min(b, Len(s)))

\* Python [x] * n
Repeat(x, n) == [i \in 1..n |-> x]

StartsWith(s, p) == Len(s) >= Len(p) /\ SubSeq(s, 1, Len(p)) = p

(***************************************************************************)
(* CRC-32 (IEEE, reflected, polynomial 0xEDB88320) on pairs of 16-bit      *)
(* halves.                                                                 *)
(***************************************************************************)
Half == 65536
PolyHi == 60856
PolyLo == 33568
AllOnes == 65535

RECURSIVE XorN(_, _, _)
XorN(a, b, n) ==
    IF n = 0 THEN 0
    ELSE ((a + b) % 2) + 2 * XorN(a \div 2, b \div 2, n - 1)

\* the exclusive or of two 4-bit values, as a table
XorNibble == [a \in 0..15 |-> [b \in 0..15 |-> XorN(a, b, 4)]]

\* the exclusive or of two 16-bit values, nibble by nibble
Xor16(a, b) ==
    XorNibble[a % 16][b % 16]
    + 16 * XorNibble[(a \div 16) % 16][(b \div 16) % 16]
    + 256 * XorNibble[(a \div 256) % 16][(b \div 256) % 16]
    + 4096 * XorNibble[(a \div 4096) % 16][(b \div 4096) % 16]

CrcShift(c) ==
    LET hi == c[1]
        lo == c[2]
        shi == hi \div 2
        slo == (lo \div 2) + (hi % 2) * (Half \div 2)
    IN  IF lo % 2 = 1 THEN <<Xor16(shi, PolyHi), Xor16(slo, PolyLo)>>
        ELSE <<shi, slo>>

RECURSIVE CrcBits(_, _)
CrcBits(c, n) == IF n = 0 THEN c ELSE CrcBits(CrcShift(c), n - 1)

\* the table of the byte-wise algorithm: the eight shifts of every byte
CrcTable == [i \in 0..255 |-> CrcBits(<<0, i>>, 8)]

\* crc = table[(crc ^ b) & 0xFF] ^ (crc >> 8)
CrcByte(c, b) ==
    LET t == CrcTable[Xor16(c[2] % 256, b)]
        hi == c[1] \div 256
        lo == (c[2] \div 256) + (c[1] % 256) * 256
    IN  <<Xor16(hi, t[1]), Xor16(lo, t[2])>>

RECURSIVE CrcRaw(_, _)
\* (the test of the register makes TLC compute it at every byte, not as one
\* nested expression at the end)
CrcRaw(c, data) ==
    IF data = <<>> THEN c
    ELSE LET next == CrcByte(c, Head(data))
         IN  IF next[1] < Half THEN CrcRaw(next, Tail(data)) ELSE next

CrcInvert(c) == <<Xor16(c[1], AllOnes), Xor16(c[2], AllOnes)>>

\* the value None of a digest that was never computed
NoDigest == <<None, None>>

\* helpers.calculate_crc32(data, value): continue the CRC `value` over data
calculate_crc32(data, value) ==
    LET start == IF value = NoDigest THEN <<0, 0>> ELSE value
    IN  CrcInvert(CrcRaw(CrcInvert(start), data))

(***************************************************************************)
(* properties.MAGIC_7Z and the layout of the 32-byte signature header.     *)
(***************************************************************************)
MAGIC_7Z == <<55, 122, 188, 175, 39, 28>>
SigHeaderSize == 32

(***************************************************************************)
(* The decoded header (archiveinfo.Header) as _filelist_retrieve, test()   *)
(* and extractall() read it.  A coder is its numinstreams; a folder is     *)
(* [coders, out, unpacksizes] with one unpack size per coder, `out` the    *)
(* coder whose output no bind pair consumes.                               *)
(***************************************************************************)
RECURSIVE SumRange(_, _)
SumRange(a, b) == IF a > b THEN 0 ELSE a + SumRange(a + 1, b)

\* Folder.get_unpack_size(): the unpack size of the unbound output
FinalUnpackSize(folder) == folder.unpacksizes[folder.out]

RECURSIVE MaxNumIn(_, _)
MaxNumIn(coders, n) ==
    IF coders = <<>> THEN n ELSE MaxNumIn(Tail(coders), Max(n, Head(coders)))

\* numinstreams = 1; for coder in folder.coders: numinstreams = max(...)
NumInStreams(folder) == MaxNumIn(folder.coders, 1)

\* a single coder, and a chain of a coder with two input streams and a
\* second coder
CoderChains ==
    { [coders |-> <<1>>, out |-> 1],
      [coders |-> <<2, 1>>, out |-> 2] }

NSubChoices == {0, 1, 2}

\* attributes of a file record: present or not, the Windows bits, and the
\* file type held in the high 16 bits when UNIX_EXTENSION is set
AttrAbsent == [has |-> FALSE, bits |-> {}, ifmt |-> "none"]
AttrDir == [has |-> TRUE, bits |-> {"DIRECTORY"}, ifmt |-> "none"]
AttrFile == [has |-> TRUE, bits |-> {"ARCHIVE"}, ifmt |-> "none"]
AttrLnk == [has |-> TRUE, bits |-> {"UNIX_EXTENSION"}, ifmt |-> "lnk"]
AttrSock == [has |-> TRUE, bits |-> {"UNIX_EXTENSION"}, ifmt |-> "sock"]

Digit == <<"1", "2", "3", "4", "5", "6", "7", "8", "9">>
NameOf(i) == <<"f", Digit[i]>>
NameA == <<"a">>
NameB == <<"b">>
NameDotA == <<".", "/", "a">>
NameEscape == <<".", ".", "/", "e">>
NameDots == <<".", ".", "e">>

FileRec(empty, hasname, name, attr) ==
    [emptystream |-> empty, has_filename |-> hasname, filename |-> name,
     attributes |-> attr, lastwritetime |-> None]

\* first substream (0-based, archive-wide) of folder i
FirstSub(ns, i) == SumSeq(SubSeq(ns, 1, i - 1))

\* SubstreamsInfo: substream j (1-based, archive-wide) has size j; the
\* folder's final unpack size is the sum of its substream sizes
FolderU(ns, i) == SumRange(FirstSub(ns, i) + 1, FirstSub(ns, i) + ns[i])

MkFolder(chain, u) ==
    [coders |-> chain.coders, out |-> chain.out,
     unpacksizes |-> [c \in 1..Len(chain.coders) |->
                         IF c = chain.out THEN u ELSE u + 1]]

DigestDefined(pat, j) ==
    CASE pat = "all" -> TRUE
      [] pat = "none" -> FALSE
      [] OTHER -> j % 2 = 1

RECURSIVE PackPositions(_, _)
PackPositions(sizes, start) ==
    IF sizes = <<>> THEN <<>>
    ELSE <<start>> \o PackPositions(Tail(sizes), start + Head(sizes))

\* byte k (1-based) of the packed region
PackByte(k) == k % 2

PackBytes(n) == [k \in 1..n |-> PackByte(k)]

\* PackInfo.crcs for the packed region: None, or one CRC per pack stream,
\* each right ("ok") or the one of stream `bad` wrong
PackCrcs(sizes, positions, bad) ==
    [i \in 1..Len(sizes) |->
        LET data == [k \in 1..sizes[i] |->
                        PackByte(positions[i] - SigHeaderSize + k)]
            good == calculate_crc32(data, NoDigest)
        IN  IF i = bad THEN <<good[1], (good[2] + 1) % Half>> ELSE good]

MkHeader(chains, ns, explicit, digpat, packsizes, crcs_kind, bad, frecs) ==
    LET nf == Len(chains)
        total == SumSeq(ns)
        positions == PackPositions(packsizes, SigHeaderSize)
    IN  [has_main |-> TRUE,
         has_files_info |-> TRUE,
         folders |-> [i \in 1..nf |-> MkFolder(chains[i], FolderU(ns, i))],
         numfolders |-> nf,
         num_unpackstreams_folders |-> ns,
         sizes_explicit |-> explicit,
         unpacksizes |-> IF explicit THEN [j \in 1..total |-> j] ELSE <<>>,
         digestsdefined |-> [j \in 1..total |-> DigestDefined(digpat, j)],
         digests |-> [j \in 1..total |-> 100 + j],
         numstreams |-> Len(packsizes),
         packsizes |-> packsizes,
         packpositions |-> positions,
         crcs_kind |-> crcs_kind,
         crcs |-> IF crcs_kind = "list"
                  THEN PackCrcs(packsizes, positions, bad) ELSE <<>>,
         files |-> frecs]

\* a header without MainStreamsInfo (no attribute main_streams)
MkHeaderNoMain(has_fi, frecs) ==
    [has_main |-> FALSE, has_files_info |-> has_fi,
     folders |-> <<>>, numfolders |-> 0, num_unpackstreams_folders |-> <<>>,
     sizes_explicit |-> FALSE, unpacksizes |-> <<>>,
     digestsdefined |-> <<>>, digests |-> <<>>,
     numstreams |-> 0, packsizes |-> <<>>, packpositions |-> <<>>,
     crcs_kind |-> "none", crcs |-> <<>>, files |-> frecs]

NoHeader == MkHeaderNoMain(FALSE, <<>>)

SeqsUpTo(S, n) == UNION { [1..k -> S] : k \in 0..n }
NonEmptySeqsUpTo(S, n) == UNION { [1..k -> S] : k \in 1..n }

\* pack sizes k = 1, 2, ... for the input streams of the folders
RECURSIVE TotalNumIn(_)
TotalNumIn(chains) ==
    IF chains = <<>> THEN 0
    ELSE MaxNumIn(Head(chains).coders, 1) + TotalNumIn(Tail(chains))

(***************************************************************************)
(* The byte sources.  A source is [passed, raw, has_name, stem, head,      *)
(* nextheaderofs, nextheadersize, nextheadercrc, tail, meta]: head is its  *)
(* first (up to six) bytes; a source with six head bytes goes on with the  *)
(* rest of the signature header and then `tail`; meta is the header the    *)
(* metadata blob encodes.                                                  *)
(***************************************************************************)
MaxTail == 2

Bytes == {0, 1}
\* Property.HEADER, the first byte of a plain metadata blob
PropertyHeader == 1

Chain1 == [coders |-> <<1>>, out |-> 1]

MkSource(passed, raw, has_name, head, ofs, size, crc, tail, meta) ==
    [passed |-> passed, raw |-> raw, has_name |-> has_name, stem |-> <<"x">>,
     head |-> head, nextheaderofs |-> ofs, nextheadersize |-> size,
     nextheadercrc |-> crc, tail |-> tail, meta |-> meta]

SourceLength(src) ==
    IF Len(src.head) < Len(MAGIC_7Z) THEN Len(src.head)
    ELSE SigHeaderSize + Len(src.tail)

\* the CRC of the one-byte metadata blob
HeaderBlobCrc == calculate_crc32(<<PropertyHeader>>, NoDigest)

\* a well-formed archive file around the header h
ValidSource(h) ==
    LET n == SumSeq(h.packsizes)
    IN  MkSource(FALSE, "file", TRUE, MAGIC_7Z, n, 1, HeaderBlobCrc,
                 PackBytes(n) \o <<PropertyHeader>>, h)

\* sources that differ in their raw bytes: short, wrong magic, any
\* next-header offset, size and CRC
WrongMagic == { [MAGIC_7Z EXCEPT ![6] = 29], [i \in 1..6 |-> 0] }

SourceKinds == { <<FALSE, "file">>, <<TRUE, "file">>, <<TRUE, "bytesio">> }

RawMeta(ofs) ==
    MkHeader(<<Chain1>>, <<1>>, TRUE, "all", <<ofs>>, "none", 0,
             <<FileRec(FALSE, FALSE, <<>>, AttrFile)>>)

ShortSources ==
    { MkSource(k[1], k[2], TRUE, h, 0, 0, <<0, 0>>, <<>>, NoHeader) :
        k \in SourceKinds,
        h \in { SubSeq(MAGIC_7Z, 1, n) : n \in 0..5 } \cup WrongMagic }

RawSources ==
    { MkSource(k[1], k[2], nm, MAGIC_7Z, ofs, size, c, t, RawMeta(ofs)) :
        k \in SourceKinds, nm \in BOOLEAN, ofs \in 0..1, size \in 0..MaxTail,
        t \in SeqsUpTo(Bytes, MaxTail),
        c \in { <<0, 0>>, HeaderBlobCrc,
                calculate_crc32(<<0, PropertyHeader>>, NoDigest) } }

\* archives that differ in their folder structure
\* <<explicit substream sizes, defined digests, pack sizes missing>>
StructVariants ==
    { <<TRUE, "alt", 0>>, <<FALSE, "all", 0>>, <<TRUE, "none", 1>> }

StructFile(i, empty) ==
    FileRec(empty, TRUE, NameOf(i), IF empty THEN AttrDir ELSE AttrFile)

FolderChoices == { <<c, n>> : c \in CoderChains, n \in NSubChoices }

StructHeader(fc, v, e) ==
    LET chains == [i \in 1..Len(fc) |-> fc[i][1]]
    IN  MkHeader(chains, [i \in 1..Len(fc) |-> fc[i][2]], v[1], v[2],
                 [k \in 1..(TotalNumIn(chains) - v[3]) |-> k], "none", 0,
                 [i \in 1..Len(e) |-> StructFile(i, e[i])])

\* without explicit substream sizes every folder has at most one substream
WellFormedStruct(fc, v) == v[1] \/ \A i \in 1..Len(fc) : fc[i][2] <= 1

StructSource(src) ==
    \E fc \in NonEmptySeqsUpTo(FolderChoices, MaxFolders),
       v \in StructVariants,
       e \in SeqsUpTo(BOOLEAN, MaxFiles) :
        /\ WellFormedStruct(fc, v)
        /\ src = ValidSource(StructHeader(fc, v, e))

\* archives that differ in the names and kinds of their entries
EntryChoices ==
    { <<NameA, "file">>, <<NameA, "dir">>, <<NameA, "lnk">>,
      <<NameB, "file">>, <<NameB, "sock">>,
      <<NameEscape, "file">>, <<NameEscape, "dir">>, <<NameDots, "file">>,
      <<NameDotA, "file">> }

EntryRec(e) ==
    FileRec(e[2] = "dir", TRUE, e[1],
            CASE e[2] = "dir" -> AttrDir
              [] e[2] = "lnk" -> AttrLnk
              [] e[2] = "sock" -> AttrSock
              [] OTHER -> AttrFile)

NumStreamFiles(frecs) == Cardinality({ i \in DOMAIN frecs : ~frecs[i].emptystream })

\* one folder per file with a stream ("perfile") or one folder for all
\* ("solid"); no main streams when no file has a stream
EntryHeader(es, shape) ==
    LET frecs == [i \in 1..Len(es) |-> EntryRec(es[i])]
        m == NumStreamFiles(frecs)
    IN  IF m = 0 THEN MkHeaderNoMain(TRUE, frecs)
        ELSE IF shape = "solid"
        THEN MkHeader(<<Chain1>>, <<m>>, TRUE, "all", <<1>>, "none", 0, frecs)
        ELSE MkHeader([i \in 1..m |-> Chain1], [i \in 1..m |-> 1], FALSE,
                      "all", [i \in 1..m |-> i], "none", 0, frecs)

EntrySource(src) ==
    \E es \in NonEmptySeqsUpTo(EntryChoices, MaxFiles),
       shape \in {"solid", "perfile"} :
        src = ValidSource(EntryHeader(es, shape))

\* archives that differ in their pack streams and pack CRCs
PackHeader(ps, ck, bad) ==
    MkHeader([i \in 1..Len(ps) |-> Chain1], [i \in 1..Len(ps) |-> 1], FALSE,
             "all", ps, ck, bad, [i \in 1..Len(ps) |-> StructFile(i, FALSE)])

PackSource(src) ==
    \E ps \in NonEmptySeqsUpTo(0..2, MaxFolders),
       ck \in {"none", "empty", "list"},
       bad \in 0..MaxFolders :
        src = ValidSource(PackHeader(ps, ck, bad))

\* archives that differ in the last-write times of their entries: an entry
\* is <<without a stream, FILETIME or None>>
TimedChoices == { <<e, t>> : e \in BOOLEAN, t \in {None, 1, 2} }

TimedHeader(es) ==
    LET frecs == [i \in 1..Len(es) |->
                     [StructFile(i, es[i][1]) EXCEPT !.lastwritetime = es[i][2]]]
        m == NumStreamFiles(frecs)
    IN  IF m = 0 THEN MkHeaderNoMain(TRUE, frecs)
        ELSE MkHeader([i \in 1..m |-> Chain1], [i \in 1..m |-> 1], FALSE,
                      "all", [i \in 1..m |-> i], "none", 0, frecs)

TimedSource(src) ==
    \E es \in NonEmptySeqsUpTo(TimedChoices, MaxFiles) :
        src = ValidSource(TimedHeader(es))

\* what mode 'w', 'x' or 'a' is given: a new or truncated file opened from
\* a path, or an empty object of the caller
Sinks ==
    { MkSource(k[1], k[2], TRUE, <<>>, 0, 0, <<0, 0>>, <<>>, NoHeader) :
        k \in { <<FALSE, "file">>, <<TRUE, "bytesio">> } }

IsSource(src) ==
    \/ src \in ShortSources
    \/ src \in RawSources
    \/ StructSource(src)
    \/ EntrySource(src)
    \/ PackSource(src)
    \/ TimedSource(src)

(***************************************************************************)
(* The initial state: SevenZipFile(file, 'r') has set up self.fp and is    *)
(* about to call _real_get_contents.                                       *)
(***************************************************************************)
NoSig == [nextheaderofs |-> 0, nextheadersize |-> 0, nextheadercrc |-> <<0, 0>>]

Loop0 ==
    [file_id |-> 0, folder_index |-> 0, output_binary_index |-> 0,
     streamidx |-> 0, file_in_solid |-> 0, instreamindex |-> 0,
     folder_pos |-> 0, src_pos |-> 0]

Worker0 == [registered |-> <<>>, requested |-> FALSE, multithread |-> FALSE]

Fs0 == [root_created |-> FALSE, dirs |-> {}, files |-> {}, symlinks |-> {}]

NoOp == [op |-> "none", result |-> "none", corrupt |-> FALSE]

\* self.fp after open(): not closed, _fileRefCnt = 1, nothing written
Fp0 == [closed |-> FALSE, refcnt |-> 1, written |-> <<>>]

\* an iteration over self.files that has not begun
Idle == [status |-> "idle", yielded |-> <<>>]

\* ArchiveFileList.__init__: index = 0
It0 == [index |-> 0, a |-> Idle, b |-> Idle]

\* ArchiveFileList.__iter__ and __next__ of a loop that ran to position n
IndexAfterLoop(i, n) == [i EXCEPT !.index = n]

Init ==
    /\ \/ /\ mode = "r"
          /\ IsSource(source)
          /\ pc = "check7z"
       \/ /\ mode \in {"w", "x", "a"}
          /\ source \in Sinks
          /\ pc = "construct"
    /\ fppos = 0
    /\ err = "none"
    /\ sig_header = NoSig
    /\ afterheader = 0
    /\ header = NoHeader
    /\ files = <<>>
    /\ solid = FALSE
    /\ loop = Loop0
    /\ fstate = <<>>
    /\ worker = Worker0
    /\ fs = Fs0
    /\ lastop = NoOp
    /\ fp = Fp0
    /\ it = It0

(***************************************************************************)
(* _check_7zfile: read len(MAGIC_7Z) bytes, compare, seek back.            *)
(***************************************************************************)
\* fp.read(n) at position p: the bytes of the head of the source
ReadHead(src, p, n) == Slice(src.head, p, p + n)

\* fp.seek(off, SEEK_CUR) to a negative position: a file raises OSError
\* (EINVAL), io.BytesIO moves to 0
SeekCurRaises(src, p, off) == p + off < 0 /\ src.raw = "file"
SeekCur(src, p, off) == Max(p + off, 0)

MagicMatches(src, p) == MAGIC_7Z = ReadHead(src, p, Len(MAGIC_7Z))

\* _fpclose, lines 315-319
FpAfterClose(f, passed) ==
    [f EXCEPT !.refcnt = @ - 1,
              !.closed = @ \/ (f.refcnt - 1 = 0 /\ ~passed)]

\* __init__, lines 296-298: except Exception: self._fpclose(); raise
Fail(e) ==
    /\ pc' = "failed"
    /\ err' = e
    /\ fp' = FpAfterClose(fp, source.passed)

\* _real_get_contents, lines 322-323
Check7zfile ==
    /\ pc = "check7z"
    /\ LET got == ReadHead(source, fppos, Len(MAGIC_7Z))
           after == fppos + Len(got)
       IN  IF SeekCurRaises(source, after, -Len(MAGIC_7Z))
           THEN /\ fppos' = after
                /\ Fail("OSError")
           ELSE /\ fppos' = SeekCur(source, after, -Len(MAGIC_7Z))
                /\ IF MagicMatches(source, fppos)
                   THEN pc' = "read_header" /\ err' = err /\ fp' = fp
                   ELSE Fail("Bad7zFile: not a 7z file")
    /\ UNCHANGED <<source, sig_header, afterheader, header, files, solid,
                   loop, fstate, worker, fs, lastop,
                   mode, it>>

(***************************************************************************)
(* SignatureHeader.retrieve and _read_header_data.                         *)
(***************************************************************************)
\* the metadata bytes: fp.seek(nextheaderofs, SEEK_CUR); fp.read(nextheadersize)
HeaderData(src, sig) ==
    Slice(src.tail, sig.nextheaderofs, sig.nextheaderofs + sig.nextheadersize)

\* the comparison skipped when the read came back short
HeaderCrcOkUnlessShort(sig, data) ==
    \/ Len(data) < sig.nextheadersize
    \/ sig.nextheadercrc = calculate_crc32(data, NoDigest)

HeaderCrcOk(sig, data) == sig.nextheadercrc = calculate_crc32(data, NoDigest)

\* _real_get_contents, lines 324-326
ReadHeaderData ==
    /\ pc = "read_header"
    /\ LET sig == [nextheaderofs |-> source.nextheaderofs,
                   nextheadersize |-> source.nextheadersize,
                   nextheadercrc |-> source.nextheadercrc]
           data == HeaderData(source, sig)
       IN  /\ sig_header' = sig
           /\ afterheader' = SigHeaderSize
           /\ fppos' = SigHeaderSize + sig.nextheaderofs + Len(data)
           /\ IF HeaderCrcOk(sig, data)
              THEN pc' = "decode" /\ err' = err /\ fp' = fp
              ELSE Fail("Bad7zFile: invalid header data")
    /\ UNCHANGED <<source, header, files, solid, loop, fstate, worker, fs,
                   lastop,
                   mode, it>>

(***************************************************************************)
(* Header.retrieve (archiveinfo): an empty blob is an empty archive, a     *)
(* blob that starts with Property.HEADER decodes to the header it          *)
(* encodes, any other first byte is a bad header.                          *)
(***************************************************************************)
HeaderIsBad(data) == data # <<>> /\ Head(data) # PropertyHeader

DecodeHeader(src, data) == IF data = <<>> THEN NoHeader ELSE src.meta

Folder0 == [solid |-> FALSE, has_files |-> FALSE, offset |-> 0, files |-> <<>>]

\* _real_get_contents, lines 327-335, and _filelist_retrieve, lines 345-370
RetrieveHeader ==
    /\ pc = "decode"
    /\ LET data == HeaderData(source, sig_header)
           h == DecodeHeader(source, data)
       IN  IF HeaderIsBad(data)
           THEN /\ Fail("Bad7zFile: bad header")
                /\ UNCHANGED <<header, solid, loop, fstate>>
           ELSE /\ header' = h
                /\ solid' = (h.has_files_info /\ h.has_main /\ h.numstreams = 1)
                /\ loop' = [Loop0 EXCEPT !.folder_pos = afterheader,
                                         !.src_pos = afterheader]
                /\ fstate' = [i \in 1..Len(h.folders) |-> Folder0]
                /\ pc' = "filelist"
                /\ err' = err
                /\ fp' = fp
    /\ files' = <<>>
    /\ UNCHANGED <<source, fppos, sig_header, afterheader, worker, fs, lastop,
                   mode, it>>

(***************************************************************************)
(* _filelist_retrieve: one pass of the loop over header.files_info.files.  *)
(***************************************************************************)
\* line 374
IsStreamFile(h, fi) == ~fi.emptystream /\ h.has_main

\* lines 376-377: folder.solid as the pass sees it
FolderSolid(h, l, fst) ==
    IF l.streamidx = 0
    THEN h.num_unpackstreams_folders[l.folder_index + 1] > 1
    ELSE fst[l.folder_index + 1].solid

\* lines 353-356: the list that unpacksizes[output_binary_index] indexes
UnpacksizesLen(h) ==
    IF h.sizes_explicit THEN Len(h.unpacksizes) ELSE Len(h.folders)

\* lines 380-382
Uncompressed(h, l) ==
    IF h.sizes_explicit
    THEN Repeat(h.unpacksizes[l.output_binary_index + 1],
                Len(h.folders[l.folder_index + 1].coders))
    ELSE h.folders[l.output_binary_index + 1].unpacksizes

\* the pack size for every file of a solid folder (the lines 385-386 that
\* the source has commented out)
CompressedKindOfPackStream(l, packsizes) ==
    IF l.instreamindex < Len(packsizes) THEN "int" ELSE "list"

\* lines 383-393: what file_info['compressed'] is set to
CompressedKind(l, packsizes) ==
    IF l.file_in_solid > 0 THEN "none"
    ELSE IF l.instreamindex < Len(packsizes) THEN "int"
    ELSE "list"

Compressed(l, packsizes) ==
    IF CompressedKind(l, packsizes) = "int"
    THEN packsizes[l.instreamindex + 1] ELSE None

\* line 379: (folder.solid and packinfo.packsizes[instreamindex]) or None
MaxSize(solidf, l, packsizes) ==
    IF solidf /\ packsizes[l.instreamindex + 1] # 0
    THEN packsizes[l.instreamindex + 1] ELSE None

\* lines 412-424
DefaultName(src) ==
    IF src.has_name THEN src.stem
    ELSE <<"c", "o", "n", "t", "e", "n", "t", "s">>

FileName(src, fi) == IF fi.has_filename THEN fi.filename ELSE DefaultName(src)

\* the subscripts of lines 375-410 that raise IndexError
StreamFileRaises(h, l, fst) ==
    \/ l.folder_index >= Len(h.folders)
    \/ /\ FolderSolid(h, l, fst)
       /\ l.instreamindex >= Len(h.packsizes)
    \/ l.output_binary_index >= UnpacksizesLen(h)
    \/ l.output_binary_index >= Len(h.digestsdefined)

\* lines 374-410: the record of a file that has a stream
StreamFileInfo(src, h, l, fst, fi) ==
    LET folder == h.folders[l.folder_index + 1]
        defined == h.digestsdefined[l.output_binary_index + 1]
    IN  [filename |-> FileName(src, fi),
         emptystream |-> fi.emptystream,
         attributes |-> fi.attributes,
         lastwritetime |-> fi.lastwritetime,
         has_properties |-> FALSE,
         folder |-> l.folder_index + 1,
         compressed_kind |-> CompressedKind(l, h.packsizes),
         compressed |-> Compressed(l, h.packsizes),
         uncompressed |-> Uncompressed(h, l),
         packsizes |-> Slice(h.packsizes, l.instreamindex,
                             l.instreamindex + NumInStreams(folder)),
         maxsize |-> MaxSize(FolderSolid(h, l, fst), l, h.packsizes),
         has_digest |-> defined,
         digest |-> IF defined THEN h.digests[l.output_binary_index + 1]
                    ELSE None]

\* folder = None, the value of file_info['folder'] of an empty-stream file
NoFolder == 0

\* lines 400-406: the record of a file without a stream
EmptyFileInfo(src, fi) ==
    [filename |-> FileName(src, fi),
     emptystream |-> fi.emptystream,
     attributes |-> fi.attributes,
     lastwritetime |-> fi.lastwritetime,
     has_properties |-> FALSE,
     folder |-> NoFolder,
     compressed_kind |-> "int",
     compressed |-> 0,
     uncompressed |-> <<0>>,
     packsizes |-> <<0>>,
     maxsize |-> 0,
     has_digest |-> FALSE,
     digest |-> None]

\* line 439: the file was the last substream of its folder
FolderEnds(h, l) ==
    l.streamidx + 1 >= h.num_unpackstreams_folders[l.folder_index + 1]

\* line 442 raises IndexError
FolderEndRaises(h, l) ==
    /\ FolderEnds(h, l)
    /\ l.instreamindex + NumInStreams(h.folders[l.folder_index + 1])
           > Len(h.packsizes)

\* lines 399, 428-446: the loop variables after a file that has a stream
AfterStreamFile(h, l, solidf) ==
    LET numinstreams == NumInStreams(h.folders[l.folder_index + 1])
        pos == l.folder_pos
                 + SumSeq(Slice(h.packsizes, l.instreamindex,
                                l.instreamindex + numinstreams))
    IN  IF FolderEnds(h, l)
        THEN [file_id |-> l.file_id + 1,
              folder_index |-> l.folder_index + 1,
              output_binary_index |-> l.output_binary_index + 1,
              streamidx |-> 0,
              file_in_solid |-> 0,
              instreamindex |-> l.instreamindex + numinstreams,
              folder_pos |-> pos,
              src_pos |-> pos]
        ELSE [l EXCEPT !.file_id = l.file_id + 1,
                       !.output_binary_index = l.output_binary_index + 1,
                       !.streamidx = l.streamidx + 1,
                       !.file_in_solid = IF solidf THEN 1 ELSE l.file_in_solid]

\* an empty-stream record that takes a substream size
AfterEmptyFileConsuming(l, info) ==
    [l EXCEPT !.file_id = l.file_id + 1,
              !.output_binary_index = l.output_binary_index + 1]

\* lines 428-434: the loop variables after a file without a stream
\* (src_pos += file_info['compressed'], which is 0)
AfterEmptyFile(l, info) ==
    [l EXCEPT !.file_id = l.file_id + 1,
              !.src_pos = l.src_pos + info.compressed]

\* lines 376-377, 435-438: folder.solid and folder.files after the file
FolderAfter(f, l, solidf) ==
    [solid |-> solidf,
     has_files |-> TRUE,
     offset |-> IF f.has_files THEN f.offset ELSE l.file_id,
     files |-> Append(f.files, l.file_id + 1)]

NextFile == header.files[loop.file_id + 1]

FilelistStreamFile ==
    /\ pc = "filelist"
    /\ loop.file_id < Len(header.files)
    /\ IsStreamFile(header, NextFile)
    /\ ~StreamFileRaises(header, loop, fstate)
    /\ ~FolderEndRaises(header, loop)
    /\ LET solidf == FolderSolid(header, loop, fstate)
           fidx == loop.folder_index + 1
       IN  /\ files' = Append(files, StreamFileInfo(source, header, loop,
                                                    fstate, NextFile))
           /\ fstate' = [fstate EXCEPT ![fidx] = FolderAfter(@, loop, solidf)]
           /\ loop' = AfterStreamFile(header, loop, solidf)
    /\ UNCHANGED <<source, fppos, pc, err, sig_header, afterheader, header,
                   solid, worker, fs, lastop,
                   mode, fp, it>>

FilelistEmptyFile ==
    /\ pc = "filelist"
    /\ loop.file_id < Len(header.files)
    /\ ~IsStreamFile(header, NextFile)
    /\ files' = Append(files, EmptyFileInfo(source, NextFile))
    /\ loop' = AfterEmptyFile(loop, EmptyFileInfo(source, NextFile))
    /\ UNCHANGED <<source, fppos, pc, err, sig_header, afterheader, header,
                   solid, fstate, worker, fs, lastop,
                   mode, fp, it>>

\* a subscript out of range: IndexError leaves the constructor
FilelistIndexError ==
    /\ pc = "filelist"
    /\ loop.file_id < Len(header.files)
    /\ IsStreamFile(header, NextFile)
    /\ IF StreamFileRaises(header, loop, fstate)
       THEN UNCHANGED <<files, fstate>>
       ELSE /\ FolderEndRaises(header, loop)
            /\ files' = Append(files, StreamFileInfo(source, header, loop,
                                                     fstate, NextFile))
            /\ fstate' = [fstate EXCEPT ![loop.folder_index + 1] =
                            FolderAfter(@, loop,
                                        FolderSolid(header, loop, fstate))]
    /\ Fail("IndexError")
    /\ UNCHANGED <<source, fppos, sig_header, afterheader, header, solid,
                   loop, worker, fs, lastop,
                   mode, it>>

\* reset(): fp.seek(afterheader); worker = Worker(files, afterheader, header)
ResetPos == afterheader

\* the loop ends, _real_get_contents returns and __init__ calls reset()
FilelistDone ==
    /\ pc = "filelist"
    /\ loop.file_id = Len(header.files)
    /\ fppos' = ResetPos
    /\ worker' = Worker0
    /\ pc' = "opened"
    /\ UNCHANGED <<source, err, sig_header, afterheader, header, files, solid,
                   loop, fstate, fs, lastop,
                   mode, fp, it>>

(***************************************************************************)
(* test(): _test_digests, _test_pack_digest, _test_digest_raw and           *)
(* _test_unpack_digest.                                                    *)
(***************************************************************************)
\* Configuration.read_blocksize, in bytes of the model
ReadBlocksize == 2

\* fp.read(n) at the absolute position p, past the signature header
ReadAt(src, p, n) == Slice(src.tail, p - SigHeaderSize, p - SigHeaderSize + n)

\* the while loop of _test_digest_raw: the digest of `remaining` bytes at p
RECURSIVE DigestRaw(_, _, _, _)
DigestRaw(src, p, remaining, digest) ==
    IF remaining <= 0 THEN digest
    ELSE LET block == Min(ReadBlocksize, remaining)
             data == ReadAt(src, p, block)
         IN  DigestRaw(src, p + Len(data), remaining - block,
                       calculate_crc32(data, digest))

\* _test_digest_raw(pos, size, crc): digest == crc
TestDigestRaw(src, p, size, crc) == DigestRaw(src, p, size, NoDigest) = crc

\* _test_pack_digest, lines 497-503
TestPackDigest(src, h) ==
    IF h.crcs_kind = "list" /\ Len(h.crcs) > 0
    THEN \A i \in 1..Len(h.packpositions) :
            TestDigestRaw(src, h.packpositions[i], h.packsizes[i], h.crcs[i])
    ELSE TRUE

\* for f in self.files: worker.register_filelike(f.id, None)
RegisterDiscard(fl) ==
    [k \in 1..Len(fl) |-> [id |-> k - 1, sink |-> "none", name |-> <<>>]]

\* header.main_streams is read without a guard (lines 497, 646)
TestRaises ==
    /\ pc = "opened"
    /\ ~header.has_main
    /\ fppos' = ResetPos
    /\ worker' = Worker0
    /\ lastop' = [op |-> "test", result |-> "AttributeError", corrupt |-> FALSE]
    /\ pc' = "called"
    /\ UNCHANGED <<source, err, sig_header, afterheader, header, files,
                   solid, loop, fstate, fs,
                   mode, fp, it>>

TestPackFails ==
    /\ pc = "opened"
    /\ header.has_main
    /\ ~TestPackDigest(source, header)
    /\ fppos' = ResetPos
    /\ worker' = Worker0
    /\ lastop' = [op |-> "test", result |-> "False", corrupt |-> FALSE]
    /\ pc' = "called"
    /\ UNCHANGED <<source, err, sig_header, afterheader, header, files,
                   solid, loop, fstate, fs,
                   mode, fp, it>>

\* _test_unpack_digest: worker.extract(fp) returns or raises Bad7zFile
TestUnpack ==
    /\ pc = "opened"
    /\ header.has_main
    /\ TestPackDigest(source, header)
    /\ \E corrupt \in BOOLEAN :
          lastop' = [op |-> "test",
                     result |-> IF corrupt THEN "False" ELSE "True",
                     corrupt |-> corrupt]
    /\ fppos' = ResetPos
    /\ worker' = [registered |-> RegisterDiscard(files), requested |-> TRUE,
                  multithread |-> FALSE]
    /\ it' = IndexAfterLoop(it, Len(files))
    /\ pc' = "called"
    /\ UNCHANGED <<source, err, sig_header, afterheader, header, files,
                   solid, loop, fstate, fs,
                   mode, fp>>

Test == TestRaises \/ TestPackFails \/ TestUnpack

(***************************************************************************)
(* extractall(path).                                                       *)
(***************************************************************************)
\* ArchiveFile._test_attribute and the properties built on it
TestAttribute(f, bit) == f.attributes.has /\ bit \in f.attributes.bits
is_directory(f) == TestAttribute(f, "DIRECTORY")
is_socket(f) == TestAttribute(f, "UNIX_EXTENSION") /\ f.attributes.ifmt = "sock"
is_symlink(f) == TestAttribute(f, "UNIX_EXTENSION") /\ f.attributes.ifmt = "lnk"

\* line 652: f.filename.startswith('../')
EscapesRoot(name) == StartsWith(name, <<".", ".", "/">>)

\* lines 646-647
MultiThreadInitially(h) == h.numfolders > 1 /\ h.numstreams = h.numfolders

InSeq(x, sq) == \E i \in 1..Len(sq) : sq[i] = x

Scan0(h) ==
    [raised |-> FALSE, multi_thread |-> MultiThreadInitially(h),
     fnames |-> <<>>, target_dirs |-> {}, target_sym |-> {},
     registered |-> <<>>, propertied |-> {}, index |-> 0]

\* the duplicate name not looked for
MultiThreadKept(acc, f) == acc.multi_thread

\* lines 658-660
MultiThreadAfter(acc, f) ==
    IF InSeq(f.filename, acc.fnames) THEN FALSE ELSE acc.multi_thread

\* lines 661-664: path.joinpath(f.filename), pathlib.Path(f.filename); a
\* pathlib path drops the '.' components of the name, '..' stays
RECURSIVE joinpath(_)
joinpath(name) ==
    IF StartsWith(name, <<".", "/">>)
    THEN joinpath(SubSeq(name, 3, Len(name)))
    ELSE name

\* lines 665-680: what the pass does with the entry once its name is noted
ScanTargets(acc, f, id, existing) ==
    IF is_directory(f)
    THEN IF joinpath(f.filename) \notin existing
         THEN [acc EXCEPT !.target_dirs = @ \cup {joinpath(f.filename)},
                          !.propertied = @ \cup {id}]
         ELSE acc
    ELSE IF is_socket(f) THEN acc
    ELSE IF is_symlink(f)
    THEN [acc EXCEPT !.target_sym = @ \cup {joinpath(f.filename)},
                     !.registered = Append(@, [id |-> id, sink |-> "buffer",
                                               name |-> f.filename])]
    ELSE [acc EXCEPT !.registered = Append(@, [id |-> id, sink |-> "path",
                                               name |-> joinpath(f.filename)]),
                     !.propertied = @ \cup {id}]

\* lines 649-680: one pass of the loop over self.files
ScanEntry(acc, f, id, existing) ==
    IF acc.raised THEN acc
    ELSE IF EscapesRoot(f.filename)
    THEN [acc EXCEPT !.raised = TRUE, !.index = id + 1]
    ELSE ScanTargets([acc EXCEPT !.multi_thread = MultiThreadAfter(acc, f),
                                 !.fnames = Append(@, f.filename),
                                 !.index = id + 1],
                     f, id, existing)

RECURSIVE ScanFrom(_, _, _, _)
ScanFrom(acc, fl, k, existing) ==
    IF k > Len(fl) THEN acc
    ELSE ScanFrom(ScanEntry(acc, fl[k], k - 1, existing), fl, k + 1, existing)

Scan(h, fl, existing) == ScanFrom(Scan0(h), fl, 1, existing)

\* ArchiveFile.file_properties, lines 70-76: the keys readonly, posix_mode,
\* archivable and is_directory are stored in the file's own record
WithProperties(fl, ids) ==
    [k \in 1..Len(fl) |->
        IF (k - 1) \in ids THEN [fl[k] EXCEPT !.has_properties = TRUE]
        ELSE fl[k]]

\* directories that may exist under the target before the extraction
ExistingChoices == { {}, {NameA} }

\* lines 632-644: path.mkdir(parents=True) when path is given and missing
RootAfter(f, path) == [f EXCEPT !.root_created = @ \/ path = "missing"]

PathChoices == {"none", "missing"}

ExtractOp(result) == [op |-> "extractall", result |-> result, corrupt |-> FALSE]

\* line 646 reads header.main_streams without a guard
ExtractRaises ==
    /\ pc = "opened"
    /\ ~header.has_main
    /\ \E path \in PathChoices : fs' = RootAfter(fs, path)
    /\ fppos' = ResetPos
    /\ worker' = Worker0
    /\ lastop' = ExtractOp("AttributeError")
    /\ pc' = "called"
    /\ UNCHANGED <<source, err, sig_header, afterheader, header, files,
                   solid, loop, fstate,
                   mode, fp, it>>

\* line 653: raise Bad7zFile
ExtractRefuses ==
    /\ pc = "opened"
    /\ header.has_main
    /\ \E path \in PathChoices, existing \in ExistingChoices :
          LET sc == Scan(header, files, existing)
          IN  /\ sc.raised
              /\ fs' = RootAfter(fs, path)
              /\ worker' = [Worker0 EXCEPT !.registered = sc.registered]
              /\ files' = WithProperties(files, sc.propertied)
              /\ it' = IndexAfterLoop(it, sc.index)
    /\ fppos' = ResetPos
    /\ lastop' = ExtractOp("Bad7zFile")
    /\ pc' = "called"
    /\ UNCHANGED <<source, err, sig_header, afterheader, header,
                   solid, loop, fstate,
                   mode, fp>>

\* the names registered with the worker as paths
RegisteredPaths(reg) ==
    { reg[i].name : i \in { j \in 1..Len(reg) : reg[j].sink = "path" } }

\* lines 681-705: the directories are made, the worker extracts, the
\* symlinks are made
ExtractRuns ==
    /\ pc = "opened"
    /\ header.has_main
    /\ \E path \in PathChoices, existing \in ExistingChoices,
          corrupt \in BOOLEAN :
          LET sc == Scan(header, files, existing)
              made == [RootAfter(fs, path) EXCEPT
                          !.dirs = @ \cup sc.target_dirs]
          IN  /\ ~sc.raised
              /\ files' = WithProperties(files, sc.propertied)
              /\ it' = IndexAfterLoop(it, Len(files))
              /\ worker' = [registered |-> sc.registered,
                            requested |-> TRUE,
                            multithread |-> sc.multi_thread]
              /\ IF corrupt
                 THEN /\ fs' = made
                      /\ lastop' = [ExtractOp("Bad7zFile") EXCEPT
                                       !.corrupt = TRUE]
                 ELSE /\ fs' = [made EXCEPT
                                   !.files = @ \cup RegisteredPaths(sc.registered),
                                   !.symlinks = @ \cup sc.target_sym]
                      /\ lastop' = ExtractOp("None")
    /\ fppos' = ResetPos
    /\ pc' = "called"
    /\ UNCHANGED <<source, err, sig_header, afterheader, header,
                   solid, loop, fstate,
                   mode, fp>>

ExtractAll == ExtractRaises \/ ExtractRefuses \/ ExtractRuns

(***************************************************************************)
(* getnames() and list(): one pass over self.files each.                   *)
(***************************************************************************)
\* ArchiveFile.uncompressed_size: functools.reduce(operator.add, uncompressed)
uncompressed_size(f) == SumSeq(f.uncompressed)

\* helpers.filetime_to_dt: a FILETIME counts from the year 1601
filetime_to_dt(t) == 1601 + t

FileInfo(filename, compressed, uncompressed, archivable, isdir, creationtime) ==
    [filename |-> filename, compressed |-> compressed,
     uncompressed |-> uncompressed, archivable |-> archivable,
     is_directory |-> isdir, creationtime |-> creationtime]

\* lines 611-615: the loop of list() from the k-th file on; creationtime is
\* assigned only for a file that has a last-write time
RECURSIVE ListInfos(_, _, _)
ListInfos(fl, k, creationtime) ==
    IF k > Len(fl) THEN <<>>
    ELSE LET f == fl[k]
             ct == IF f.lastwritetime # None
                   THEN filetime_to_dt(f.lastwritetime) ELSE creationtime
         IN  <<FileInfo(f.filename, f.compressed, uncompressed_size(f),
                        TestAttribute(f, "ARCHIVE"), is_directory(f), ct)>>
             \o ListInfos(fl, k + 1, ct)

List ==
    /\ pc = "opened"
    /\ lastop' = [op |-> "list", result |-> "list", corrupt |-> FALSE,
                  infos |-> ListInfos(files, 1, None)]
    /\ it' = IndexAfterLoop(it, Len(files))
    /\ pc' = "called"
    /\ UNCHANGED <<source, fppos, err, sig_header, afterheader, header, files,
                   solid, loop, fstate, worker, fs, mode, fp>>

GetNames ==
    /\ pc = "opened"
    /\ lastop' = [op |-> "getnames", result |-> "list", corrupt |-> FALSE,
                  infos |-> [k \in 1..Len(files) |-> files[k].filename]]
    /\ it' = IndexAfterLoop(it, Len(files))
    /\ pc' = "called"
    /\ UNCHANGED <<source, fppos, err, sig_header, afterheader, header, files,
                   solid, loop, fstate, worker, fs, mode, fp>>

(***************************************************************************)
(* close() of an archive opened for reading: 'w' is not in the mode, so    *)
(* only _fpclose runs.                                                     *)
(***************************************************************************)
CloseRead ==
    /\ mode = "r"
    /\ pc \in {"opened", "called"}
    /\ pc' = "closed"
    /\ fp' = FpAfterClose(fp, source.passed)
    /\ UNCHANGED <<source, fppos, err, sig_header, afterheader, header, files,
                   solid, loop, fstate, worker, fs, lastop, mode, it>>

(***************************************************************************)
(* Write mode.  The paths handed to write() and writeall(): a target is    *)
(* [path, nm, kind, data, children], what the file system holds at that    *)
(* path when it is added and when close() reads it.                        *)
(***************************************************************************)
Target(path, nm, kind, data, children) ==
    [path |-> path, nm |-> nm, kind |-> kind, data |-> data,
     children |-> children]

\* a regular file of zero bytes, one of more bytes than one read block, a
\* symbolic link to a regular file, a path at which nothing exists, and a
\* directory that holds one regular file
Targets ==
    { Target(<<"a">>, <<"a">>, "file", <<>>, <<>>),
      Target(<<"b">>, <<"b">>, "file", <<1, 0, 1>>, <<>>),
      Target(<<"l">>, <<"l">>, "symlink", <<>>, <<>>),
      Target(<<"m">>, <<"m">>, "missing", <<>>, <<>>),
      Target(<<"d">>, <<"d">>, "dir", <<>>,
             <<Target(<<"d", "/", "c">>, <<"c">>, "file", <<1>>, <<>>)>>) }

\* the arcname argument: None, or a name
NoArc == [given |-> FALSE, name |-> <<>>]
Arcs == {NoArc, [given |-> TRUE, name |-> <<"x">>]}

\* _make_file_info: the key 'emptystream' is set for a directory (is_dir),
\* a link (is_symlink) and a regular file (is_file), and for nothing else
make_file_info(t, arc) ==
    [origin |-> t,
     filename |-> IF arc.given THEN arc.name ELSE t.path,
     has_emptystream |-> t.kind \in {"dir", "symlink", "file"},
     emptystream |-> t.kind \in {"dir", "symlink"}]

\* ArchiveFile.emptystream: the value of the key, None (false) without it
emptystream(f) == f.has_emptystream /\ f.emptystream

\* writeall: the records it appends, the entries of a directory in sorted
\* order under os.path.join(arcname, nm); is_file follows a link
RECURSIVE writeall(_, _)
RECURSIVE WriteAllChildren(_, _)
writeall(t, arc) ==
    IF t.kind = "file" \/ t.kind = "symlink"
    THEN <<make_file_info(t, arc)>>
    ELSE IF t.kind = "dir"
    THEN (IF arc.given THEN <<make_file_info(t, arc)>> ELSE <<>>)
         \o WriteAllChildren(t.children, arc)
    ELSE <<>>

WriteAllChildren(cs, arc) ==
    IF cs = <<>> THEN <<>>
    ELSE writeall(Head(cs),
                  IF arc.given
                  THEN [given |-> TRUE,
                        name |-> arc.name \o <<"/">> \o Head(cs).nm]
                  ELSE NoArc)
         \o WriteAllChildren(Tail(cs), arc)

\* __init__ in mode 'w': _write_open
WriteOpen ==
    /\ pc = "construct"
    /\ mode = "w"
    /\ pc' = "writing"
    /\ files' = <<>>
    /\ UNCHANGED <<source, fppos, err, sig_header, afterheader, header,
                   solid, loop, fstate, worker, fs, lastop, mode, fp, it>>

\* __init__ in mode 'x' or 'a': NotImplementedError, raised inside the try
ModeNotImplemented ==
    /\ pc = "construct"
    /\ mode \in {"x", "a"}
    /\ Fail("NotImplementedError")
    /\ UNCHANGED <<source, fppos, sig_header, afterheader, header, files,
                   solid, loop, fstate, worker, fs, lastop, mode, it>>

\* write(file, arcname)
Write ==
    /\ pc = "writing"
    /\ Len(files) < MaxFiles
    /\ \E t \in Targets, arc \in Arcs :
          files' = Append(files, make_file_info(t, arc))
    /\ UNCHANGED <<source, fppos, pc, err, sig_header, afterheader, header,
                   solid, loop, fstate, worker, fs, lastop, mode, fp, it>>

\* writeall(path, arcname)
WriteAll ==
    /\ pc = "writing"
    /\ \E t \in Targets, arc \in Arcs :
          /\ Len(files) + Len(writeall(t, arc)) <= MaxFiles
          /\ files' = files \o writeall(t, arc)
    /\ UNCHANGED <<source, fppos, pc, err, sig_header, afterheader, header,
                   solid, loop, fstate, worker, fs, lastop, mode, fp, it>>

(***************************************************************************)
(* _write_archive.  The compressor and the encoders of the two headers are *)
(* collaborators: a compressor either hands out a frame for every block it *)
(* is given or keeps everything until flush; the metadata blob is a        *)
(* function of the header it encodes.                                      *)
(***************************************************************************)
compress(ck, block) ==
    IF ck = "stream" THEN <<Len(block)>> \o block ELSE <<>>

flush(ck, data) ==
    IF ck = "stream" THEN <<0>> ELSE <<Len(data)>> \o data \o <<0>>

\* the successive results of fd.read(Configuration.read_blocksize) that are
\* not empty
RECURSIVE ReadBlocks(_)
ReadBlocks(data) ==
    IF data = <<>> THEN <<>>
    ELSE <<SubSeq(data, 1, Min(ReadBlocksize, Len(data)))>>
         \o ReadBlocks(SubSeq(data, Min(ReadBlocksize, Len(data)) + 1,
                              Len(data)))

\* what one fp.write leaves in the byte source
WriteEvent(op, id, pos, size, data, sig) ==
    [op |-> op, file |-> id, pos |-> pos, size |-> size, data |-> data,
     sig |-> sig]

\* lines 544-555: the fp.write calls for one file, one for every block and
\* one for flush, from position pos on
RECURSIVE PackWrites(_, _, _, _, _)
PackWrites(ck, id, data, blocks, pos) ==
    IF blocks = <<>>
    THEN <<WriteEvent("pack", id, pos, Len(flush(ck, data)),
                      flush(ck, data), NoSig)>>
    ELSE <<WriteEvent("pack", id, pos, Len(compress(ck, Head(blocks))),
                      compress(ck, Head(blocks)), NoSig)>>
         \o PackWrites(ck, id, data, Tail(blocks),
                       pos + Len(compress(ck, Head(blocks))))

RECURSIVE SumOfSizes(_)
SumOfSizes(evs) ==
    IF evs = <<>> THEN 0 ELSE Head(evs).size + SumOfSizes(Tail(evs))

\* the state of _write_archive when its loop begins: the skeleton is
\* written, the header is built
WriteState0(pos) ==
    [log |-> <<WriteEvent("skeleton", None, pos, SigHeaderSize, <<>>,
                          NoSig)>>,
     pos |-> pos + SigHeaderSize, numstreams |-> 0, packsizes |-> <<>>,
     unpacksizes |-> <<>>, files_info |-> <<>>, index |-> 0,
     raised |-> "none"]

\* lines 535-557: the loop over self.files from the k-th file on; the open
\* of a path that is no file raises
RECURSIVE WriteFiles(_, _, _, _)
WriteFiles(ck, fl, k, st) ==
    IF k > Len(fl) THEN st
    ELSE LET f == fl[k]
             st1 == [st EXCEPT
                        !.files_info =
                            Append(@, [filename |-> f.filename,
                                       emptystream |-> emptystream(f)]),
                        !.index = k]
             evs == PackWrites(ck, k - 1, f.origin.data,
                               ReadBlocks(f.origin.data), st.pos)
         IN  IF emptystream(f) THEN WriteFiles(ck, fl, k + 1, st1)
             ELSE IF f.origin.kind \notin {"file", "symlink"}
             THEN [st1 EXCEPT !.numstreams = @ + 1,
                              !.raised = "FileNotFoundError"]
             ELSE WriteFiles(ck, fl, k + 1,
                      [st1 EXCEPT
                          !.numstreams = @ + 1,
                          !.log = @ \o evs,
                          !.pos = @ + SumOfSizes(evs),
                          !.packsizes = Append(@, SumOfSizes(evs)),
                          !.unpacksizes = Append(@, Len(f.origin.data))])

\* a writer that records the end of the packed streams, not their length
NextHeaderOfsFromStart(pos, after) == pos

\* line 559
NextHeaderOfs(pos, after) == pos - after

\* the header _write_archive has built: one folder, no CRCs, names only
WrittenHeader(st) ==
    [NoHeader EXCEPT
        !.has_main = TRUE, !.has_files_info = TRUE,
        !.folders = <<[coders |-> <<1>>, out |-> 1,
                       unpacksizes |-> st.unpacksizes]>>,
        !.numfolders = 1,
        !.numstreams = st.numstreams, !.packsizes = st.packsizes,
        !.files = st.files_info]

\* the byte of a character of a name
Ord(c) ==
    CASE c = "a" -> 97 [] c = "b" -> 98 [] c = "c" -> 99 [] c = "d" -> 100
      [] c = "l" -> 108 [] c = "m" -> 109 [] c = "x" -> 120 [] c = "/" -> 47
      [] OTHER -> 46

RECURSIVE EncodeFiles(_)
EncodeFiles(fl) ==
    IF fl = <<>> THEN <<>>
    ELSE <<IF Head(fl).emptystream THEN 1 ELSE 0>>
         \o [i \in 1..Len(Head(fl).filename) |-> Ord(Head(fl).filename[i])]
         \o <<0>> \o EncodeFiles(Tail(fl))

\* header.write(fp, encoded=False): the metadata blob
EncodeHeader(h) ==
    <<PropertyHeader, h.numstreams>> \o h.packsizes
    \o <<Len(h.folders[1].unpacksizes)>> \o h.folders[1].unpacksizes
    \o <<Len(h.files)>> \o EncodeFiles(h.files)

\* sig_header.calccrc(data) after line 559
SigOf(ofs, data) ==
    [nextheaderofs |-> ofs, nextheadersize |-> Len(data),
     nextheadercrc |-> calculate_crc32(data, NoDigest)]

\* close() in write mode: _write_archive, then _fpclose when it returned
CloseWrite ==
    /\ mode = "w"
    /\ pc = "writing"
    /\ \E ck \in {"stream", "buffer"} :
          LET st == WriteFiles(ck, files, 1, WriteState0(fppos))
              h == WrittenHeader(st)
              meta == EncodeHeader(h)
              sig == SigOf(NextHeaderOfs(st.pos, fppos + SigHeaderSize), meta)
          IN  /\ afterheader' = fppos + SigHeaderSize
              /\ header' = h
              /\ it' = IndexAfterLoop(it, st.index)
              /\ IF st.raised # "none"
                 THEN /\ pc' = "close_raised"
                      /\ err' = st.raised
                      /\ sig_header' = NoSig
                      /\ fppos' = st.pos
                      /\ fp' = [fp EXCEPT !.written = st.log]
                 ELSE /\ pc' = "closed"
                      /\ err' = err
                      /\ sig_header' = sig
                      /\ fppos' = SigHeaderSize
                      /\ fp' = FpAfterClose(
                            [fp EXCEPT !.written = st.log
                                \o <<WriteEvent("meta", None, st.pos,
                                                Len(meta), meta, NoSig),
                                     WriteEvent("sig", None, 0, SigHeaderSize,
                                                <<>>, sig)>>],
                            source.passed)
    /\ UNCHANGED <<source, files, solid, loop, fstate, worker, fs, lastop,
                   mode>>

Open ==
    \/ Check7zfile
    \/ ReadHeaderData
    \/ RetrieveHeader
    \/ FilelistStreamFile
    \/ FilelistEmptyFile
    \/ FilelistIndexError
    \/ FilelistDone
    \/ WriteOpen
    \/ ModeNotImplemented

Next ==
    \/ Open \/ Test \/ ExtractAll \/ List \/ GetNames
    \/ Write \/ WriteAll \/ CloseRead \/ CloseWrite

Spec == Init /\ [][Next]_vars

(***************************************************************************)
(* Two iterations over self.files, step by step.  ArchiveFileList is its   *)
(* own iterator: __iter__ sets the index of the list to 0 and returns the  *)
(* list, __next__ reads and advances that index.  An iteration is the loop *)
(* of getnames(), list() or extractall() in a thread, or a loop of the     *)
(* caller over the files, nested in another or not.                        *)
(***************************************************************************)
Iterations == {"a", "b"}

\* iter(self.files)
IterBegin ==
    /\ pc = "opened"
    /\ \E t \in Iterations :
          /\ it[t].status = "idle"
          /\ it' = [it EXCEPT !.index = 0,
                              ![t] = [status |-> "running", yielded |-> <<>>]]
    /\ UNCHANGED <<source, fppos, pc, err, sig_header, afterheader, header,
                   files, solid, loop, fstate, worker, fs, lastop, mode, fp>>

\* next(): StopIteration at the end of the list, else the ArchiveFile of
\* the file at the index, with id index + offset (offset 0)
IterNext ==
    /\ pc = "opened"
    /\ \E t \in Iterations :
          /\ it[t].status = "running"
          /\ IF it.index = Len(files)
             THEN it' = [it EXCEPT ![t].status = "done"]
             ELSE it' = [it EXCEPT
                            !.index = @ + 1,
                            ![t].yielded =
                                Append(@, [id |-> it.index,
                                           filename |->
                                               files[it.index + 1].filename])]
    /\ UNCHANGED <<source, fppos, pc, err, sig_header, afterheader, header,
                   files, solid, loop, fstate, worker, fs, lastop, mode, fp>>

\* archives of up to MaxFiles entries, with and without a stream, opened
\* for reading
InitIter ==
    /\ Init
    /\ mode = "r"
    /\ \E es \in NonEmptySeqsUpTo({ e \in TimedChoices : e[2] = None },
                                   MaxFiles) :
          source = ValidSource(TimedHeader(es))

NextIter ==
    \/ Check7zfile
    \/ ReadHeaderData
    \/ RetrieveHeader
    \/ FilelistStreamFile
    \/ FilelistEmptyFile
    \/ FilelistDone
    \/ IterBegin
    \/ IterNext

SpecIter == InitIter /\ [][NextIter]_vars

(***************************************************************************)
(* What the claims speak about.                                            *)
(***************************************************************************)
Processing == pc \in {"filelist", "opened", "called"}

\* the records of header.files_info.files that have a stream, among the first k
StreamFilesBefore(h, k) ==
    Cardinality({ i \in 1..(k - 1) : ~h.files[i].emptystream })

NumSubstreams(h) == SumSeq(h.num_unpackstreams_folders)

\* the header's files fill its folders: every folder has a substream, there
\* are as many files with a stream as substreams, and every input stream of
\* every folder has its pack size
FilesMatchSubstreams(h) ==
    /\ h.has_main
    /\ \A i \in 1..Len(h.folders) : h.num_unpackstreams_folders[i] >= 1
    /\ StreamFilesBefore(h, Len(h.files) + 1) = NumSubstreams(h)

PackSizesComplete(h) ==
    Len(h.packsizes) = SumSeq([i \in 1..Len(h.folders) |->
                                  NumInStreams(h.folders[i])])

\* the folder of substream j (0-based, archive-wide): the unique i with
\* sum(n_sub[0..i-1]) <= j < sum(n_sub[0..i])
FolderOfSubstream(h, j) ==
    CHOOSE i \in 1..Len(h.folders) :
        /\ FirstSub(h.num_unpackstreams_folders, i) <= j
        /\ j < FirstSub(h.num_unpackstreams_folders, i + 1)

\* the size of substream j (0-based): the explicit size, or the final unpack
\* size of its folder when the folder is its only substream
SubstreamSize(h, j) ==
    IF h.sizes_explicit THEN h.unpacksizes[j + 1]
    ELSE FinalUnpackSize(h.folders[FolderOfSubstream(h, j)])

PositionalFolder(k) ==
    files[k].folder = FolderOfSubstream(header, StreamFilesBefore(header, k))

PositionalDigest(k) ==
    LET j == StreamFilesBefore(header, k)
    IN  /\ files[k].has_digest = header.digestsdefined[j + 1]
        /\ files[k].has_digest => files[k].digest = header.digests[j + 1]

PositionalSize(k) ==
    uncompressed_size(files[k])
        = SubstreamSize(header, StreamFilesBefore(header, k))

\* C1: when every folder has a substream and the files with a stream are as
\* many as the substreams, the j-th file with a stream is in the folder of
\* substream j, has the size of substream j and the digest of substream j
\* exactly when that digest is defined.
C1_PositionalReconstruction ==
    (Processing /\ FilesMatchSubstreams(header)) =>
        \A k \in 1..Len(files) :
            ~header.files[k].emptystream =>
                /\ PositionalFolder(k)
                /\ PositionalSize(k)
                /\ PositionalDigest(k)

\* the folder and the digest of C1, without the size
PositionalFolderAndDigest ==
    (Processing /\ FilesMatchSubstreams(header)) =>
        \A k \in 1..Len(files) :
            ~header.files[k].emptystream =>
                PositionalFolder(k) /\ PositionalDigest(k)

\* the files before k that are in the folder of file k
EarlierInFolder(k) ==
    { i \in 1..(k - 1) : files[i].folder = files[k].folder }

InSolidFolder(k) ==
    /\ files[k].folder # NoFolder
    /\ header.num_unpackstreams_folders[files[k].folder] > 1

C3_SizesAddUp ==
    (pc = "opened" /\ FilesMatchSubstreams(header)) =>
        SumSeq([k \in 1..Len(files) |-> uncompressed_size(files[k])])
            = SumSeq([i \in 1..Len(header.folders) |->
                         FinalUnpackSize(header.folders[i])])

\* C4: the file of a folder with exactly one substream has as compressed
\* size the sum of its recorded pack sizes.
C4_CompressedIsSumOfPacked ==
    (Processing /\ FilesMatchSubstreams(header) /\ PackSizesComplete(header)) =>
        \A k \in 1..Len(files) :
            (/\ files[k].folder # NoFolder
             /\ header.num_unpackstreams_folders[files[k].folder] = 1) =>
                /\ files[k].compressed_kind = "int"
                /\ files[k].compressed = SumSeq(files[k].packsizes)

\* the pass of the loop that handles a record with emptystream = true
EmptyStreamPass ==
    /\ pc = "filelist"
    /\ loop.file_id < Len(header.files)
    /\ header.files[loop.file_id + 1].emptystream
    /\ loop'.file_id = loop.file_id + 1

\* C5: a record with emptystream = true gets folder none, uncompressed size
\* 0 and compressed size 0, and the folder index, the substream counter,
\* the pack-stream cursor and the substream-size index stay as they were.
C5_EmptyStreamFrame ==
    [][EmptyStreamPass =>
          /\ Len(files') = Len(files) + 1
          /\ files'[Len(files')].folder = NoFolder
          /\ uncompressed_size(files'[Len(files')]) = 0
          /\ files'[Len(files')].compressed_kind = "int"
          /\ files'[Len(files')].compressed = 0
          /\ loop'.folder_index = loop.folder_index
          /\ loop'.streamidx = loop.streamidx
          /\ loop'.instreamindex = loop.instreamindex
          /\ loop'.output_binary_index = loop.output_binary_index]_vars

\* an empty-stream record was handled between two files of one folder
C5_Witness ==
    /\ pc = "opened"
    /\ \E k \in 2..(Len(files) - 1) :
          /\ files[k].folder = NoFolder
          /\ files[k].compressed = 0
          /\ files[k - 1].folder # NoFolder
          /\ files[k + 1].folder = files[k - 1].folder

HasMagic(src) == src.head = MAGIC_7Z

\* C6: a source whose first six bytes are not the 7z magic, also one
\* shorter than six bytes, fails to open with Bad7zFile('not a 7z file') and
\* with nothing else, and the magic check leaves the read position where it
\* was.
C6_NotSevenZ ==
    /\ (mode = "r" /\ pc # "check7z" /\ ~HasMagic(source)) =>
          /\ pc = "failed"
          /\ err = "Bad7zFile: not a 7z file"
          /\ fppos = 0
    /\ pc = "read_header" => fppos = 0

\* the CRC-32 of the bytes of the source from next_header_offset, for
\* next_header_size bytes or up to the end of the source
MetadataCrc(src) ==
    calculate_crc32(Slice(src.tail, src.nextheaderofs,
                          src.nextheaderofs + src.nextheadersize), NoDigest)

\* C7: the open goes on past the metadata read only when the CRC-32 of the
\* metadata bytes is next_header_crc; on a mismatch, also after a short
\* read, it fails with Bad7zFile('invalid header data') with no header
\* decoded and no file list built.
C7_HeaderCrcGuardsOpen ==
    (pc \notin {"check7z", "read_header"} /\ HasMagic(source)) =>
        IF MetadataCrc(source) = source.nextheadercrc
        THEN err # "Bad7zFile: invalid header data"
        ELSE /\ pc = "failed"
             /\ err = "Bad7zFile: invalid header data"
             /\ header = NoHeader
             /\ files = <<>>
             /\ loop = Loop0

\* the read at the end of the source came back short and the open failed
C7_Witness ==
    /\ pc = "failed"
    /\ err = "Bad7zFile: invalid header data"
    /\ source.nextheaderofs + source.nextheadersize > Len(source.tail)
    /\ source.nextheadersize > 0
    /\ header = NoHeader

\* a pack stream whose recorded CRC is not the CRC-32 of its bytes
PackCrcMismatch(src, h) ==
    /\ h.crcs_kind = "list"
    /\ \E i \in 1..Len(h.crcs) :
          h.crcs[i] # calculate_crc32(ReadAt(src, h.packpositions[i],
                                             h.packsizes[i]), NoDigest)

\* C8: test() on an open archive returns a boolean and never raises: false
\* when a pack CRC that is present does not match or the decompression
\* reports corruption, true otherwise.
C8_TestReturnsBoolean ==
    lastop.op = "test" =>
        /\ lastop.result \in {"True", "False"}
        /\ lastop.result = "False"
              <=> (PackCrcMismatch(source, header) \/ lastop.corrupt)

NothingCreated == fs.dirs = {} /\ fs.files = {} /\ fs.symlinks = {}

HasEscapingEntry == \E k \in 1..Len(files) : EscapesRoot(files[k].filename)

\* C9: when an entry's name begins with '../', extractall() fails with the
\* path-escape error (Bad7zFile raised by extractall itself), whatever the
\* place of the entry, with no file, directory or symlink of the archive
\* created and no decompression started.
C9_PathEscapeRefused ==
    (lastop.op = "extractall" /\ HasEscapingEntry) =>
        /\ lastop.result = "Bad7zFile"
        /\ ~lastop.corrupt
        /\ NothingCreated
        /\ ~worker.requested

\* C9 for the archives that have pack streams
C9_PathEscapeOfPackStreams ==
    (lastop.op = "extractall" /\ HasEscapingEntry /\ header.has_main) =>
        /\ lastop.result = "Bad7zFile"
        /\ ~lastop.corrupt
        /\ NothingCreated
        /\ ~worker.requested

NoDuplicateNames ==
    \A i, j \in 1..Len(files) :
        files[i].filename = files[j].filename => i = j

\* two entries that are written to the same path
SharedPath ==
    \E i, j \in 1..Len(files) :
        i # j /\ joinpath(files[i].filename) = joinpath(files[j].filename)

\* C10: the extraction that extractall() requests from the worker is
\* multi-threaded only when there are more than one folder, as many pack
\* streams as folders, and no two entries with the same name; it is
\* sequential in every other case, and whenever two entries share a path.
C10_ParallelOnlyWhenSafe ==
    (lastop.op = "extractall" /\ worker.requested) =>
        /\ worker.multithread =>
              /\ header.numfolders > 1
              /\ header.numstreams = header.numfolders
              /\ NoDuplicateNames
        /\ SharedPath => ~worker.multithread

\* the flag extractall() passes, with names compared as the code compares
\* them: equal as strings
ParallelUnlessSameName ==
    (lastop.op = "extractall" /\ worker.requested) =>
        (worker.multithread
            <=> /\ header.numfolders > 1
                /\ header.numstreams = header.numfolders
                /\ NoDuplicateNames)

\* ArchiveFileList.__next__, line 207: the id of the file at position p
\* (from 1) of a folder's list is index + offset
FolderListId(f, p) == (p - 1) + f.offset

\* the id of the k-th file (from 1) of the archive-wide list, line 207 with
\* offset 0
ArchiveListId(k) == k - 1

\* C14: the id that a folder's list gives a file is the id of the same
\* file in the archive-wide list, also when records without a stream lie
\* between two files of the folder.
C14_FolderListIdsAreArchiveIds ==
    Processing =>
        \A i \in 1..Len(fstate) :
            \A p \in 1..Len(fstate[i].files) :
                FolderListId(fstate[i], p) = ArchiveListId(fstate[i].files[p])

\* the same for the folders whose files are next to each other in the header
C14_ContiguousFolderListIds ==
    Processing =>
        \A i \in 1..Len(fstate) :
            (\A p \in 2..Len(fstate[i].files) :
                fstate[i].files[p] = fstate[i].files[p - 1] + 1) =>
            \A p \in 1..Len(fstate[i].files) :
                FolderListId(fstate[i], p) = ArchiveListId(fstate[i].files[p])

HasEmptyFolder(h) ==
    /\ h.has_main
    /\ \E i \in 1..Len(h.folders) : h.num_unpackstreams_folders[i] = 0

\* as many files with a stream as substreams, and every pack size present
FilesCoverSubstreams(h) ==
    /\ h.has_main
    /\ h.has_files_info
    /\ StreamFilesBefore(h, Len(h.files) + 1) = NumSubstreams(h)
    /\ PackSizesComplete(h)

\* C15: with a folder of num_unpack_streams = 0 in the header the
\* reconstructor ends without an error, gives that folder no file, and
\* gives every file with a stream to the folder of its substream, a folder
\* with num_unpack_streams >= 1.
C15_EmptyFolderSkipped ==
    (/\ pc \in {"filelist", "opened", "called", "failed"}
     /\ HasEmptyFolder(header)
     /\ FilesCoverSubstreams(header)) =>
        /\ pc # "failed"
        /\ \A k \in 1..Len(files) :
              files[k].folder # NoFolder =>
                  /\ header.num_unpackstreams_folders[files[k].folder] >= 1
                  /\ PositionalFolder(k)

\* the byte source was opened by the archive from a path
OwnSource == ~source.passed

\* C11: a source the archive opened itself is closed when the constructor
\* has raised and when close() has finished, by returning or by raising
\* while it writes the archive; a source passed in open is never closed.
C11_OwnSourceAlwaysReleased ==
    /\ (OwnSource /\ pc \in {"failed", "closed", "close_raised"}) => fp.closed
    /\ ~OwnSource => ~fp.closed

\* the same without the close() that raises
ReleasedUnlessCloseRaises ==
    /\ (OwnSource /\ pc \in {"failed", "closed"}) => fp.closed
    /\ ~OwnSource => ~fp.closed

\* the fp.write calls of a log that wrote packed streams
PackEvents(log) == SelectSeq(log, LAMBDA e : e.op = "pack")

\* the ids of the files added whose record is not flagged empty-stream
StreamIds(fl) == { k - 1 : k \in { j \in 1..Len(fl) : ~emptystream(fl[j]) } }

\* the ids of the files added that hold at least one byte
IdsWithBytes(fl) ==
    { k - 1 : k \in { j \in 1..Len(fl) : /\ ~emptystream(fl[j])
                                         /\ Len(fl[j].origin.data) > 0 } }

\* the writes of a close() that returned: skeleton, packed streams of the
\* files `ids` one after the other in the order of the ids, metadata blob,
\* signature header; and what the signature header and the header record
WriterOrder(ids) ==
    LET log == fp.written
        n == Len(log)
        packs == PackEvents(log)
    IN  /\ n >= 3
        /\ log[1].op = "skeleton"
        /\ log[1].sig = NoSig
        /\ \A i \in 2..(n - 2) : log[i].op = "pack"
        /\ log[n - 1].op = "meta"
        /\ log[n].op = "sig"
        /\ { packs[i].file : i \in 1..Len(packs) } = ids
        /\ \A i \in 1..Len(packs), j \in 1..Len(packs) :
              i < j => packs[i].file <= packs[j].file
        /\ \A i \in 2..(n - 1) : log[i].pos = log[i - 1].pos + log[i - 1].size
        /\ log[n].sig.nextheaderofs = SumOfSizes(packs)
        /\ sig_header = log[n].sig
        /\ log[n].sig.nextheadersize = Len(log[n - 1].data)
        /\ log[n].sig.nextheadercrc =
              calculate_crc32(log[n - 1].data, NoDigest)
        /\ Len(header.packsizes) = Cardinality(ids)
        /\ Len(header.folders[1].unpacksizes) = Cardinality(ids)

OwnTime(f) ==
    IF f.lastwritetime = None THEN None ELSE filetime_to_dt(f.lastwritetime)

\* C13: list() returns one FileInfo per file in header order, and the time
\* of each is the last-write time of that file: none for a file whose
\* record has no last-write time, whatever the times of the files before.
C13_ListTimeIsOwn ==
    lastop.op = "list" =>
        /\ Len(lastop.infos) = Len(files)
        /\ \A k \in 1..Len(files) :
              /\ lastop.infos[k].filename = files[k].filename
              /\ lastop.infos[k].creationtime = OwnTime(files[k])

\* the same for the files that have a last-write time, and for those before
\* the first file that has one
ListTimeOfTimedFiles ==
    lastop.op = "list" =>
        /\ Len(lastop.infos) = Len(files)
        /\ \A k \in 1..Len(files) :
              /\ lastop.infos[k].filename = files[k].filename
              /\ (\/ files[k].lastwritetime # None
                  \/ \A j \in 1..k : files[j].lastwritetime = None)
                    => lastop.infos[k].creationtime = OwnTime(files[k])

\* what an iteration over the files is to yield: every file once, in header
\* order, with its own id
AllFilesInOrder ==
    [k \in 1..Len(files) |-> [id |-> k - 1, filename |-> files[k].filename]]

\* C12: two iterations over the file list that are interleaved in any
\* order, one nested in the other included, each yield every file exactly
\* once, in header order, with the file's own id.
C12_IterationsIndependent ==
    \A t \in Iterations :
        it[t].status = "done" => it[t].yielded = AllFilesInOrder

\* an iteration that ran while no other was running yields every file
SoleIterationComplete ==
    \A t \in Iterations :
        (/\ it[t].status = "done"
         /\ \E u \in Iterations \ {t} : it[u].status = "idle")
            => it[t].yielded = AllFilesInOrder

\* the file records are not changed by a call on an opened archive
FilesUnchangedByReads ==
    [][(mode = "r" /\ pc = "opened") => files' = files]_vars

====
